---- MODULE Spec2Model ----
(***************************************************************************)
(* BucketViewer S3 client: the file explorer's navigation and listing      *)
(* (App.tsx, FileExplorer, S3Service.listObjects), its projection of a     *)
(* listing into items, its sort comparator and its per-file operations     *)
(* (download URLs, copy link, delete), S3Service's type lookup, and the    *)
(* settings service with Header's theme toggle and App's connection test.  *)
(* Strings the code slices are                                             *)
(* sequences of one-character strings, so that substring/startsWith/       *)
(* endsWith/split are computed.                                            *)
(***************************************************************************)
EXTENDS Integers, Sequences, FiniteSets, TLC

VARIABLES
    activePage,      \* App: "buckets" | "files" | "settings"
    selectedBucket,  \* App: bucket name, NoBucket when undefined
    currentPath,     \* App: the UI path, "/" at root
    appSelectedFile, \* App: selectedFile (the clicked FileItem's id), NoSelection when null
    selectedFile,    \* FileExplorer: selected item id, NoSelection when null
    objects,         \* FileExplorer: ObjectInfo[] of the last applied response
    folders,         \* FileExplorer: common prefixes of the last applied response
    loading,         \* FileExplorer: loading flag
    error,           \* FileExplorer: error message, NoError when null
    inflight,        \* listObjects calls awaiting their response
    nextId,          \* number of the next listing request (history)
    pageCalls,       \* listing id -> lister calls issued for it (history)
    latest,          \* the most recently issued listing of the mounted explorer (history)
    outcome,         \* what the lister answered to the listing `latest` (history)
    applied,         \* the listing whose response the view was last set from (history)
    cancelled,       \* listings superseded or unmounted while in flight (history)
    sortBy,          \* FileExplorer: sort field
    sortDirection,   \* FileExplorer: "asc" | "desc"
    engine,          \* the runtime's Array.prototype.sort algorithm
    downloadUrl,     \* FileExplorer: item id -> cached download URL (the key it is for)
    activeModal,     \* FileExplorer: the modal shown, NoModal when null
    urlRun,          \* the generateDownloadUrls effect of the listing shown
    lastCall,        \* the latest storage operation and its key (history)
    staleRuns,       \* generateDownloadUrls effects of earlier renders, still running
    backend,         \* the settings the backend holds
    settings,        \* SettingsService: the cached settings
    hookSettings,    \* useSettings: the settings last delivered to the listeners
    notifications,   \* number of notifyListeners deliveries (history)
    invokes,         \* backend commands processed, their response under way
    nextCall,        \* number of the next backend command (history)
    lastDone,        \* the SettingsService call that completed last (history)
    isDarkMode,      \* Header: isDarkMode
    prefersDark,     \* the system's prefers-color-scheme: dark
    connectionStatus,\* App: "connected" | "disconnected" | "connecting"
    activeConnection,\* App: name of the connection under test, NoConnection when null
    tests,           \* S3Service.testConnection calls awaiting their result
    nextTest,        \* number of the next connection test (history)
    testResult,      \* connection name -> its most recently started test (history)
    fileName,        \* the file name handed to the type lookup
    detected         \* what the type lookup returned for fileName

navVars == <<activePage, selectedBucket, currentPath, appSelectedFile, selectedFile,
             objects, folders, loading, error, inflight, nextId, pageCalls, latest,
             outcome, applied, cancelled>>
sortVars == <<sortBy, sortDirection, engine>>
opsVars == <<downloadUrl, activeModal, urlRun, lastCall>>
settingsVars == <<backend, settings, hookSettings, notifications, invokes, nextCall, lastDone,
                  isDarkMode, prefersDark, connectionStatus, activeConnection, tests,
                  nextTest, testResult>>
typeVars == <<fileName, detected>>
sideVars == <<staleRuns, settingsVars, typeVars>>
vars == <<navVars, sortVars, opsVars, sideVars>>

----------------------------------------------------------------------------
(* Bounds *)

MaxRequests == 4

PageCeiling == 3

----------------------------------------------------------------------------
(* JavaScript string primitives on sequences of characters *)

Slash == "/"

StartsWith(s, p) == Len(p) <= Len(s) /\ SubSeq(s, 1, Len(p)) = p

EndsWith(s, p) == Len(p) <= Len(s) /\ SubSeq(s, Len(s) - Len(p) + 1, Len(s)) = p

Substring(s, n) == SubSeq(s, n + 1, Len(s))

Includes(s, c) == \E i \in 1..Len(s) : s[i] = c

RECURSIVE Split(_, _)
Split(s, c) ==
    IF ~Includes(s, c) THEN <<s>>
    ELSE LET i == CHOOSE i \in 1..Len(s) : s[i] = c /\ \A j \in 1..(i - 1) : s[j] # c
         IN <<SubSeq(s, 1, i - 1)>> \o Split(SubSeq(s, i + 1, Len(s)), c)

NonEmpty(s) == s # <<>>

----------------------------------------------------------------------------
(* Values *)

NoBucket == "undefined"
NoSelection == <<>>
NoError == "null"
Root == <<Slash>>
Buckets == {"b1"}
Pages == {"buckets", "files", "settings"}

----------------------------------------------------------------------------
(* The object lister behind invoke('list_s3_objects'): one bucket whose    *)
(* keys are listed with delimiter "/", answered one page per call.         *)

Obj(key, size, modified, ctype) ==
    [key |-> key, size |-> size, last_modified |-> modified,
     content_type |-> ctype, is_folder |-> FALSE]

Date(m, d) == [month |-> m, day |-> d]
NoDate == Date(0, 0)

StoreObjects ==
    << Obj(<<"a", "/", "b", "/", "j">>, 700, Date(3, 1), <<"t">>),
       Obj(<<"a", "/", "i">>, 2048, Date(2, 1), <<"t">>),
       Obj(<<"f">>, 300, Date(1, 2), <<"t">>),
       Obj(<<"g">>, 1536, Date(10, 1), <<>>),
       Obj(<<"h">>, 0, NoDate, <<"p">>) >>

RECURSIVE Dedup(_)
Dedup(s) ==
    IF s = <<>> THEN <<>>
    ELSE LET rest == Dedup(SubSeq(s, 1, Len(s) - 1))
             x == s[Len(s)]
         IN IF \E i \in 1..Len(rest) : rest[i] = x THEN rest ELSE Append(rest, x)

Remainder(key, prefix) == Substring(key, Len(prefix))

ListerEntries(prefix) ==
    SelectSeq(StoreObjects, LAMBDA o : /\ StartsWith(o.key, prefix)
                                       /\ ~Includes(Remainder(o.key, prefix), Slash))

ListerCommonPrefixes(prefix) ==
    LET deeper == SelectSeq(StoreObjects,
                            LAMBDA o : /\ StartsWith(o.key, prefix)
                                       /\ Includes(Remainder(o.key, prefix), Slash))
    IN Dedup([i \in 1..Len(deeper) |->
                 prefix \o Split(Remainder(deeper[i].key, prefix), Slash)[1] \o <<Slash>>])

ListerKinds == {"single", "split", "dup", "endless"}

NoToken == 0

ListPage(objs, cps, truncated, token) ==
    [objects |-> objs, common_prefixes |-> cps, is_truncated |-> truncated,
     next_continuation_token |-> token]

\* The page the lister answers to a call with continuation token `token`, when it
\* cuts the listing of `prefix` after k entries in the way `kind` names.
Page(prefix, token, kind, k) ==
    LET E == ListerEntries(prefix)
        C == ListerCommonPrefixes(prefix)
        n == Len(E)
    IN CASE kind = "single" -> ListPage(E, C, FALSE, NoToken)
         [] kind = "split" ->
              IF token = NoToken THEN ListPage(SubSeq(E, 1, k), <<>>, TRUE, 1)
              ELSE ListPage(SubSeq(E, k + 1, n), C, FALSE, NoToken)
         [] kind = "dup" ->
              IF token = NoToken THEN ListPage(SubSeq(E, 1, k), C, TRUE, 1)
              ELSE ListPage(E, <<>>, FALSE, NoToken)
         [] OTHER ->
              IF token = NoToken THEN ListPage(E, C, TRUE, 1)
              ELSE ListPage(<<>>, <<>>, TRUE, token + 1)

Cuts(prefix) == 0..Len(ListerEntries(prefix))

ErrorCauses == {"AccessDenied", "NoSuchBucket"}

----------------------------------------------------------------------------
(* S3Service.listObjects and FileExplorer's path handling *)

\* A conversion that forgets substring(1) and keeps the path's leading "/".
PathToPrefixKeepLeading(path) ==
    IF path = Root THEN <<>>
    ELSE IF ~EndsWith(path, <<Slash>>) THEN path \o <<Slash>> ELSE path

\* FileExplorer.loadObjects / handleRefresh: UI path to S3 prefix.
PathToPrefix(path) ==
    IF path = Root THEN <<>>
    ELSE LET prefix == Substring(path, 1)
         IN IF ~EndsWith(prefix, <<Slash>>) THEN prefix \o <<Slash>> ELSE prefix

\* S3Service.listObjects: the prefix handed to invoke (null is the empty prefix).
NormalizePrefix(prefix) ==
    IF prefix = <<>> THEN <<>>
    ELSE LET p1 == IF StartsWith(prefix, <<Slash>>) THEN Substring(prefix, 1) ELSE prefix
         IN IF p1 # <<>> /\ ~EndsWith(p1, <<Slash>>) THEN p1 \o <<Slash>> ELSE p1

\* FileExplorer: pathParts = currentPath.split("/").filter(Boolean)
PathParts(path) == SelectSeq(Split(path, Slash), NonEmpty)

\* Breadcrumbs whose path is restarted at "/" for every segment instead of being
\* accumulated (currentBreadcrumbPath = "/" + part + "/").
RECURSIVE BreadcrumbPathsRestart(_)
BreadcrumbPathsRestart(parts) ==
    IF parts = <<>> THEN <<Root>>
    ELSE Append(BreadcrumbPathsRestart(SubSeq(parts, 1, Len(parts) - 1)),
                <<Slash>> \o parts[Len(parts)] \o <<Slash>>)

\* FileExplorer: breadcrumbs, the root entry first; each entry's path.
RECURSIVE BreadcrumbPaths(_)
BreadcrumbPaths(parts) ==
    IF parts = <<>> THEN <<Root>>
    ELSE LET before == BreadcrumbPaths(SubSeq(parts, 1, Len(parts) - 1))
         IN Append(before, before[Len(before)] \o parts[Len(parts)] \o <<Slash>>)

Breadcrumbs(path) == BreadcrumbPaths(PathParts(path))

\* handleFileClick without its endsWith("/") test.
ChildPathAlwaysSlash(path, name) ==
    IF path = Root THEN <<Slash>> \o name \o <<Slash>>
    ELSE path \o <<Slash>> \o name \o <<Slash>>

\* FileExplorer.handleFileClick: the path of a clicked folder.
ChildPath(path, name) ==
    IF path = Root THEN <<Slash>> \o name \o <<Slash>>
    ELSE path \o (IF EndsWith(path, <<Slash>>) THEN <<>> ELSE <<Slash>>) \o name \o <<Slash>>

\* FileExplorer.convertToFileItems: currentPrefix
CurrentPrefix(path) == IF path = Root THEN <<>> ELSE Substring(path, 1)

\* FileExplorer.convertToFileItems, folders.forEach: the folder name of one common
\* prefix, empty when no item is pushed.
FolderName(path, folderPrefix) ==
    LET currentPrefix == CurrentPrefix(path)
        relativePath == IF currentPrefix # <<>> /\ StartsWith(folderPrefix, currentPrefix)
                        THEN Substring(folderPrefix, Len(currentPrefix))
                        ELSE folderPrefix
    IN Split(relativePath, Slash)[1]

\* FileExplorer.convertToFileItems, objects.forEach: the file name of one object,
\* empty when no item is pushed.
FileName(path, key) ==
    LET currentPrefix == CurrentPrefix(path)
    IN IF EndsWith(key, <<Slash>>) THEN <<>>
       ELSE IF path = Root
            THEN (IF ~Includes(key, Slash) THEN key ELSE <<>>)
            ELSE IF StartsWith(key, currentPrefix)
                 THEN LET relativePath == Substring(key, Len(currentPrefix))
                          cleanPath == IF StartsWith(relativePath, <<Slash>>)
                                       THEN Substring(relativePath, 1) ELSE relativePath
                      IN IF ~Includes(cleanPath, Slash) THEN cleanPath ELSE <<>>
                 ELSE <<>>

----------------------------------------------------------------------------
(* S3Service.formatFileSize / formatDate and FileExplorer.convertToFileItems *)

Digit(d) == <<"0", "1", "2", "3", "4", "5", "6", "7", "8", "9">>[d + 1]

RECURSIVE ToDigits(_)
ToDigits(n) == IF n < 10 THEN <<Digit(n)>> ELSE ToDigits(n \div 10) \o <<Digit(n % 10)>>

RECURSIVE Pow1024(_)
Pow1024(i) == IF i = 0 THEN 1 ELSE 1024 * Pow1024(i - 1)

SizeUnits == << <<"B">>, <<"K", "B">>, <<"M", "B">>, <<"G", "B">>, <<"T", "B">> >>

\* Math.floor(Math.log(bytes) / Math.log(1024))
RECURSIVE Log1024(_)
Log1024(bytes) == IF bytes < 1024 THEN 0 ELSE 1 + Log1024(bytes \div 1024)

\* S3Service.formatFileSize: toFixed(0) below 1 KB, toFixed(1) above.
FormatFileSize(bytes) ==
    IF bytes = 0 THEN <<"0", " ", "B">>
    ELSE LET i == Log1024(bytes)
             tenths == (2 * 10 * bytes + Pow1024(i)) \div (2 * Pow1024(i))
         IN IF i = 0 THEN ToDigits(bytes) \o <<" ">> \o SizeUnits[1]
            ELSE ToDigits(tenths \div 10) \o <<".">> \o <<Digit(tenths % 10)>>
                 \o <<" ">> \o SizeUnits[i + 1]

\* S3Service.formatDate: toLocaleDateString() of the date, month first (the year
\* and the time of day are the same for every object of the model).
FormatDate(d) ==
    IF d = NoDate THEN <<"-">> ELSE ToDigits(d.month) \o <<Slash>> \o ToDigits(d.day)

FileItem(id, name, type, size, lastModified, contentType) ==
    [id |-> id, name |-> name, type |-> type, size |-> size,
     lastModified |-> lastModified, contentType |-> contentType]

FolderItemOf(path, flds, i) ==
    FileItem(<<"folder", i - 1>>, FolderName(path, flds[i]), "folder", <<>>, <<>>, <<>>)

ObjectItemOf(path, objs, i) ==
    LET obj == objs[i]
    IN FileItem(<<"file", i - 1>>, FileName(path, obj.key),
                IF obj.is_folder THEN "folder" ELSE "file",
                IF obj.size # 0 THEN FormatFileSize(obj.size) ELSE <<>>,
                IF obj.last_modified # NoDate THEN FormatDate(obj.last_modified) ELSE <<>>,
                obj.content_type)

HasName(item) == item.name # <<>>

\* FileExplorer.convertToFileItems: folder items first, then object items, each
\* pushed only when its name is non-empty.
ConvertToFileItems(path, flds, objs) ==
    SelectSeq([i \in 1..Len(flds) |-> FolderItemOf(path, flds, i)], HasName)
    \o SelectSeq([i \in 1..Len(objs) |-> ObjectItemOf(path, objs, i)], HasName)

----------------------------------------------------------------------------
(* Listing requests *)

Ids == 1..MaxRequests

NoOutcome == [st |-> "none", prefix |-> <<>>, kind |-> "none", cut |-> 0]

NotApplied == [id |-> 0, prefix |-> <<>>, kind |-> "none", cut |-> 0]

\* The listObjects call of loadObjects / handleRefresh for `path`.
NewRequest(path, how) ==
    [id |-> nextId, path |-> path, prefix |-> NormalizePrefix(PathToPrefix(path)),
     how |-> how, live |-> TRUE]

\* A pagination loop that asks for the next page of every truncated page, without a
\* look at whether the listing was superseded.
FurtherPageCallsLoop(page) == IF page.is_truncated THEN 1 ELSE 0

\* loadObjects and handleRefresh read response.objects and response.common_prefixes
\* only; is_truncated and next_continuation_token are never read and listObjects is
\* never called with a continuation token: no further page is requested.
FurtherPageCalls(page) == 0

\* A catch that takes the thrown value for something other than an Error and shows
\* its fallback text.
LoadErrorMessageGeneric(msg) == "Failed to load objects"

\* loadObjects' catch: the message shown for a failure.
LoadErrorMessage(msg) ==
    CASE msg \in {"Access denied", "AccessDenied"} ->
           "Access denied - Please check your S3 credentials and permissions"
      [] msg \in {"Invalid credentials", "InvalidAccessKeyId"} ->
           "Invalid S3 credentials - Please verify your access key and secret key"
      [] msg \in {"Network error", "timeout"} ->
           "Network connectivity issue - Please check your internet connection and endpoint URL"
      [] msg = "DNS resolution failed" ->
           "Cannot resolve S3 endpoint - Please verify the endpoint URL is correct"
      [] OTHER -> msg

\* setLoading(true); setError(null); await S3Service.listObjects(...)
IssueListing(path, how, others) ==
    LET r == NewRequest(path, how)
    IN /\ nextId <= MaxRequests
       /\ inflight' = others \cup {r}
       /\ nextId' = nextId + 1
       /\ pageCalls' = [pageCalls EXCEPT ![r.id] = 1]
       /\ latest' = r.id
       /\ outcome' = [NoOutcome EXCEPT !.st = "pending", !.prefix = r.prefix]
       /\ cancelled' = cancelled \cup {o.id : o \in others}
       /\ loading' = TRUE
       /\ error' = NoError

\* A FileExplorer that has just been mounted, or is not mounted.
FreshExplorer ==
    /\ selectedFile' = NoSelection
    /\ objects' = <<>>
    /\ folders' = <<>>
    /\ applied' = NotApplied

Orphaned(reqs) == {[r EXCEPT !.live = FALSE] : r \in reqs}

FileItems == ConvertToFileItems(currentPath, folders, objects)

----------------------------------------------------------------------------
(* Actions of App and FileExplorer *)

\* App.handleNavigation: FileExplorer is rendered on the "files" page only, so it
\* is mounted (and its load effect runs) on entering the page and unmounted on leaving.
HandleNavigation(page) ==
    /\ page # activePage
    /\ activePage' = page
    /\ UNCHANGED <<selectedBucket, currentPath, appSelectedFile, sortVars, sideVars, opsVars>>
    /\ IF page = "files"
       THEN /\ FreshExplorer
            /\ IF selectedBucket # NoBucket
               THEN IssueListing(currentPath, "load", inflight)
               ELSE /\ loading' = FALSE
                    /\ error' = NoError
                    /\ UNCHANGED <<inflight, nextId, pageCalls, latest, outcome, cancelled>>
       ELSE IF activePage = "files"
       THEN /\ FreshExplorer
            /\ loading' = FALSE
            /\ error' = NoError
            /\ inflight' = Orphaned(inflight)
            /\ latest' = 0
            /\ outcome' = NoOutcome
            /\ cancelled' = cancelled \cup {o.id : o \in inflight}
            /\ UNCHANGED <<nextId, pageCalls>>
       ELSE UNCHANGED <<selectedFile, objects, folders, applied, loading, error,
                        inflight, nextId, pageCalls, latest, outcome, cancelled>>

\* App.handleBucketSelect, from the bucket list: FileExplorer mounts at the root.
HandleBucketSelect(b) ==
    /\ activePage = "buckets"
    /\ selectedBucket' = b
    /\ activePage' = "files"
    /\ currentPath' = Root
    /\ appSelectedFile' = NoSelection
    /\ FreshExplorer
    /\ IssueListing(Root, "load", inflight)
    /\ UNCHANGED <<sortVars, sideVars, opsVars>>

\* FileExplorer.handleFileClick, and App.handleFileSelect / handlePathChange: what
\* they set in App and in the explorer's listing state.
FileClicked(item) ==
    /\ activePage = "files"
    /\ \E i \in 1..Len(FileItems) : FileItems[i] = item
    /\ selectedFile' = item.id
    /\ IF item.type = "folder"
       THEN /\ currentPath' = ChildPath(currentPath, item.name)
            /\ appSelectedFile' = NoSelection
            /\ IssueListing(ChildPath(currentPath, item.name), "load", inflight)
       ELSE /\ appSelectedFile' = item.id
            /\ UNCHANGED <<currentPath, inflight, nextId, pageCalls, latest, outcome,
                           cancelled, loading, error>>
    /\ UNCHANGED <<activePage, selectedBucket, objects, folders, applied>>

HandleFileClick(item) == FileClicked(item) /\ UNCHANGED <<sortVars, sideVars, opsVars>>

\* FileExplorer.handlePathClick and App.handlePathChange: the load effect runs
\* when currentPath changed.
PathClicked(path) ==
    /\ activePage = "files"
    /\ \E i \in 1..Len(Breadcrumbs(currentPath)) : Breadcrumbs(currentPath)[i] = path
    /\ currentPath' = path
    /\ appSelectedFile' = NoSelection
    /\ IF path # currentPath /\ selectedBucket # NoBucket
       THEN IssueListing(path, "load", inflight)
       ELSE UNCHANGED <<inflight, nextId, pageCalls, latest, outcome, cancelled, loading,
                        error>>
    /\ UNCHANGED <<activePage, selectedBucket, selectedFile, objects, folders, applied>>

HandlePathClick(path) == PathClicked(path) /\ UNCHANGED <<sortVars, sideVars, opsVars>>

\* FileExplorer.handleRefresh, from the Refresh button (disabled while loading).
HandleRefresh ==
    /\ activePage = "files"
    /\ ~loading
    /\ selectedBucket # NoBucket
    /\ IssueListing(currentPath, "refresh", inflight)
    /\ UNCHANGED <<activePage, selectedBucket, currentPath, appSelectedFile, selectedFile,
                   objects, folders, applied, sortVars, sideVars, opsVars>>

\* The await of listObjects returns `page`: setObjects, setFolders, setLoading(false).
\* A response to an unmounted explorer sets nothing.
ListingReturned(r, page, kind, k) ==
    /\ r \in inflight
    /\ inflight' = inflight \ {r}
    /\ outcome' = IF r.live /\ r.id = latest
                   THEN [st |-> "ok", prefix |-> r.prefix, kind |-> kind, cut |-> k]
                   ELSE outcome
    /\ pageCalls' = [pageCalls EXCEPT ![r.id] = @ + FurtherPageCalls(page)]
    /\ IF r.live
       THEN /\ objects' = page.objects
            /\ folders' = page.common_prefixes
            /\ loading' = FALSE
            /\ applied' = [id |-> r.id, prefix |-> r.prefix, kind |-> kind, cut |-> k]
       ELSE UNCHANGED <<objects, folders, loading, applied>>
    /\ UNCHANGED <<activePage, selectedBucket, currentPath, appSelectedFile, selectedFile,
                   error, nextId, latest, cancelled>>

ListObjectsReturned(r, page, kind, k) ==
    ListingReturned(r, page, kind, k) /\ UNCHANGED <<sortVars, sideVars, opsVars>>

\* The response of the bucket's lister, cut into pages in the way `kind` names.
ListObjectsResolved(r, kind, k) ==
    /\ r \in inflight
    /\ kind \in {"single", "endless"} => k = 0
    /\ kind = "dup" => k >= 1
    /\ ListObjectsReturned(r, Page(r.prefix, NoToken, kind, k), kind, k)

\* The await of listObjects throws: setError, setLoading(false).
ListObjectsRejected(r, cause) ==
    /\ r \in inflight
    /\ inflight' = inflight \ {r}
    /\ outcome' = IF r.live /\ r.id = latest
                   THEN [NoOutcome EXCEPT !.st = "failed", !.prefix = r.prefix]
                   ELSE outcome
    /\ IF r.live
       THEN /\ error' = IF r.how = "load" THEN LoadErrorMessage(cause) ELSE cause
            /\ loading' = FALSE
       ELSE UNCHANGED <<error, loading>>
    /\ UNCHANGED <<activePage, selectedBucket, currentPath, appSelectedFile, selectedFile,
                   objects, folders, applied, nextId, pageCalls, latest, cancelled,
                   sortVars, sideVars, opsVars>>

----------------------------------------------------------------------------
(* Specification of navigation and listing *)

NavInit ==
    /\ activePage = "buckets"
    /\ selectedBucket = NoBucket
    /\ currentPath = Root
    /\ appSelectedFile = NoSelection
    /\ selectedFile = NoSelection
    /\ objects = <<>>
    /\ folders = <<>>
    /\ loading = FALSE
    /\ error = NoError
    /\ inflight = {}
    /\ nextId = 1
    /\ pageCalls = [i \in Ids |-> 0]
    /\ latest = 0
    /\ outcome = NoOutcome
    /\ applied = NotApplied
    /\ cancelled = {}

SortIdle ==
    /\ sortBy = "name"
    /\ sortDirection = "asc"
    /\ engine = "timsort"

NoFile == FileItem(<<"none", 0>>, <<>>, "none", <<>>, <<>>, <<>>)

NoModal == [type |-> "null", file |-> NoFile]

NoUrls == {}

NoCall == [op |-> "none", file |-> NoFile, path |-> <<>>, key |-> <<>>]

\* The generateDownloadUrls effect of an explorer that shows no file.
NoRun ==
    [path |-> Root, files |-> <<>>, pos |-> 1, urlMap |-> NoUrls, failed |-> {},
     view |-> << <<>>, <<>>, NoError >>]

OpsIdle ==
    /\ downloadUrl = NoUrls
    /\ activeModal = NoModal
    /\ urlRun = NoRun
    /\ lastCall = NoCall

NoSettings == [theme |-> "none", connections |-> <<>>]

NoConnection == "null"

ConnectionNames == {"A", "B"}

NoTest == [id |-> 0, result |-> "none"]

NoDone == [id |-> 0, op |-> "none", index |-> 0, valid |-> TRUE, threw |-> FALSE,
           wasDark |-> FALSE]

NoDetection == [rule |-> <<>>, contentType |-> "none", icon |-> "none"]

\* The settings service, Header, App's connection test and the type lookup at rest.
SideIdle ==
    /\ staleRuns = {}
    /\ backend = NoSettings
    /\ settings = NoSettings
    /\ hookSettings = NoSettings
    /\ notifications = 0
    /\ invokes = {}
    /\ nextCall = 1
    /\ lastDone = NoDone
    /\ isDarkMode = FALSE
    /\ prefersDark = FALSE
    /\ connectionStatus = "disconnected"
    /\ activeConnection = NoConnection
    /\ tests = {}
    /\ nextTest = 1
    /\ testResult = [n \in ConnectionNames |-> NoTest]
    /\ fileName = <<>>
    /\ detected = NoDetection

Init == NavInit /\ SortIdle /\ OpsIdle /\ SideIdle

Next ==
    \/ \E page \in Pages : HandleNavigation(page)
    \/ \E b \in Buckets : HandleBucketSelect(b)
    \/ \E i \in 1..Len(FileItems) :
          FileItems[i].type = "folder" /\ HandleFileClick(FileItems[i])
    \/ \E i \in 1..Len(Breadcrumbs(currentPath)) : HandlePathClick(Breadcrumbs(currentPath)[i])
    \/ HandleRefresh
    \/ \E r \in inflight, kind \in ListerKinds :
          \E k \in Cuts(r.prefix) : ListObjectsResolved(r, kind, k)
    \/ \E r \in inflight, cause \in ErrorCauses : ListObjectsRejected(r, cause)

Spec == Init /\ [][Next]_vars

----------------------------------------------------------------------------
(* The listing a complete pagination of one prefix yields (spec 4.2): pages  *)
(* are requested while truncated, a repeated key is Inconsistent, more than  *)
(* PageCeiling pages is TooManyPages.                                        *)

KeysOf(objs) == {objs[i].key : i \in 1..Len(objs)}

Range(seq) == {seq[i] : i \in 1..Len(seq)}

RECURSIVE CursorRun(_, _, _, _, _, _, _)
CursorRun(prefix, kind, k, token, accObjects, accPrefixes, calls) ==
    IF calls >= PageCeiling
    THEN [status |-> "TooManyPages", objects |-> <<>>, prefixes |-> {}, calls |-> calls]
    ELSE LET page == Page(prefix, token, kind, k)
         IN IF KeysOf(page.objects) \cap KeysOf(accObjects) # {}
            THEN [status |-> "Inconsistent", objects |-> <<>>, prefixes |-> {},
                  calls |-> calls + 1]
            ELSE IF page.is_truncated
            THEN CursorRun(prefix, kind, k, page.next_continuation_token,
                           accObjects \o page.objects,
                           accPrefixes \cup Range(page.common_prefixes), calls + 1)
            ELSE [status |-> "ok", objects |-> accObjects \o page.objects,
                  prefixes |-> accPrefixes \cup Range(page.common_prefixes),
                  calls |-> calls + 1]

CompleteListing(prefix, kind, k) == CursorRun(prefix, kind, k, NoToken, <<>>, {}, 0)

LiveInflight == {r \in inflight : r.live}

----------------------------------------------------------------------------
(* Claims on navigation and listing *)

\* C1: last-request-wins. Whenever the mounted explorer has no listing request
\* outstanding and its most recent request was answered, the objects and folders
\* shown are those returned for that most recent request.
C1_LastRequestWins ==
    (activePage = "files" /\ latest # 0 /\ LiveInflight = {} /\ outcome.st = "ok")
    => LET page == Page(outcome.prefix, NoToken, outcome.kind, outcome.cut)
       IN objects = page.objects /\ folders = page.common_prefixes

\* C2: pagination completeness. The view set from a listing holds the entries of
\* all its pages and the set of all its common prefixes, and one lister call was
\* made per page, for every cut of the listing into pages.
C2_PaginationComplete ==
    LET full == CompleteListing(applied.prefix, applied.kind, applied.cut)
    IN (applied.id # 0 /\ full.status = "ok")
       => /\ objects = full.objects
          /\ Range(folders) = full.prefixes
          /\ pageCalls[applied.id] = full.calls

\* C3: a listing whose later page repeats a key of an earlier page fails with
\* Inconsistent; the view is never set from such a listing, not even from its
\* first page.
C3_DuplicateKeyFails ==
    applied.id # 0
    => CompleteListing(applied.prefix, applied.kind, applied.cut).status # "Inconsistent"

\* C4: against a lister whose every page is truncated, at most PageCeiling page
\* requests are issued and the listing fails with TooManyPages: no view is set
\* from it and the explorer shows the failure.
C4_EndlessListingFails ==
    /\ \A id \in Ids : pageCalls[id] <= PageCeiling
    /\ (applied.id # 0 /\ applied.kind = "endless")
       => /\ CompleteListing(applied.prefix, applied.kind, applied.cut).status
               # "TooManyPages"
          /\ error # NoError

\* C5: once a listing in flight is cancelled (superseded by a newer request of the
\* explorer, or its explorer unmounted), no further lister call is issued for it.
C5_NoPageRequestAfterCancel ==
    [][\A id \in cancelled : pageCalls'[id] = pageCalls[id]]_vars

\* C5 witness: a listing that was superseded in flight has been answered, after
\* its single lister call.
C5_Witness ==
    \E id \in cancelled : /\ \A r \in inflight : r.id # id
                          /\ pageCalls[id] = 1
                          /\ id < latest

RECURSIVE JoinWithSlash(_)
JoinWithSlash(parts) ==
    IF parts = <<>> THEN <<>> ELSE Head(parts) \o <<Slash>> \o JoinWithSlash(Tail(parts))

CleanPrefix(prefix, path) ==
    /\ path = Root => prefix = <<>>
    /\ path # Root =>
         /\ prefix = JoinWithSlash(PathParts(path))
         /\ prefix # <<>>
         /\ ~StartsWith(prefix, <<Slash>>)
         /\ EndsWith(prefix, <<Slash>>)
         /\ ~EndsWith(prefix, <<Slash, Slash>>)

\* C10: the prefix that reaches the lister is empty for the root and otherwise
\* the path's segments joined by "/", with no leading "/" and exactly one trailing
\* "/": for the current path and for the prefix of every request sent.
C10_PrefixReachingLister ==
    /\ CleanPrefix(NormalizePrefix(PathToPrefix(currentPath)), currentPath)
    /\ \A r \in inflight : CleanPrefix(r.prefix, r.path)

\* C10 witness: a listing request for a path two folders deep is in flight.
C10_Witness ==
    \E r \in inflight : Len(PathParts(r.path)) >= 2 /\ r.path = currentPath

\* The path reached from the root by clicking the folders `parts` one after another.
RECURSIVE Descend(_)
Descend(parts) ==
    IF parts = <<>> THEN Root
    ELSE ChildPath(Descend(SubSeq(parts, 1, Len(parts) - 1)), parts[Len(parts)])

ListedPrefix(path) == NormalizePrefix(PathToPrefix(path))

\* C12: the breadcrumbs of the current path are the root entry followed by one
\* entry per non-empty prefix of its segments, in order; the storage prefix derived
\* from breadcrumb i is the prefix that was listed when that ancestor was entered
\* by folder clicks, and breadcrumb 0 is the root with prefix "".
C12_BreadcrumbPrefixes ==
    LET parts == PathParts(currentPath)
        crumbs == Breadcrumbs(currentPath)
    IN /\ Len(crumbs) = Len(parts) + 1
       /\ crumbs[1] = Root
       /\ ListedPrefix(crumbs[1]) = <<>>
       /\ \A i \in 1..Len(crumbs) :
             ListedPrefix(crumbs[i]) = ListedPrefix(Descend(SubSeq(parts, 1, i - 1)))

\* C12 witness: from a directory two folders deep, whose listing is shown, the
\* breadcrumb of its parent was clicked and the parent's listing is requested.
C12_Witness ==
    /\ Len(PathParts(currentPath)) = 1
    /\ Len(PathParts(<<Slash>> \o applied.prefix)) = 2
    /\ StartsWith(applied.prefix, ListedPrefix(currentPath))
    /\ \E r \in inflight : r.live /\ r.id = latest /\ r.prefix = ListedPrefix(currentPath)

\* The causes loadObjects' catch recognises and replaces by an explanation.
RecognisedCauses ==
    {"Access denied", "AccessDenied", "Invalid credentials", "InvalidAccessKeyId",
     "Network error", "timeout", "DNS resolution failed"}

\* C19: when the lister reports a failure to a mounted explorer, one lister call
\* was made for that request (no retry) and the error shown is the lister's cause,
\* unmodified.
C19_FailurePassedThrough ==
    [][\A r \in inflight, cause \in ErrorCauses :
          (ListObjectsRejected(r, cause) /\ r.live)
          => (pageCalls'[r.id] = 1 /\ error' = cause)]_vars

\* C19 as amended: one lister call was made for the failed request (no retry); the
\* error shown is the lister's cause unmodified when the request was a refresh or
\* the cause is not one the initial load recognises, and otherwise one of the
\* load's explanations, never the cause itself and never empty.
C19_FailureReported ==
    [][\A r \in inflight, cause \in ErrorCauses :
          (ListObjectsRejected(r, cause) /\ r.live)
          => /\ pageCalls'[r.id] = 1
             /\ (r.how = "refresh" \/ cause \notin RecognisedCauses) => error' = cause
             /\ (r.how = "load" /\ cause \in RecognisedCauses)
                => error' \notin (ErrorCauses \cup {NoError, "Failed to load objects"})]_vars

\* C19 witness: the initial load of a directory failed with a cause the load does
\* not recognise, after one lister call, and the explorer shows that cause.
C19_Witness ==
    /\ outcome.st = "failed"
    /\ LiveInflight = {}
    /\ latest # 0
    /\ pageCalls[latest] = 1
    /\ error = "NoSuchBucket"
    /\ ~loading

----------------------------------------------------------------------------
(* String.prototype.localeCompare: collation of the characters the model     *)
(* uses, letters of one case-pair sharing a primary weight, lower case first *)

CollationOrder ==
    <<" ", "-", ".", "/", "0", "1", "2", "3", "4", "5", "6", "7", "8", "9",
      "a", "b", "c", "d", "e", "g", "k", "m", "p", "t", "z">>

Lower(c) ==
    CASE c = "B" -> "b" [] c = "K" -> "k" [] c = "M" -> "m" [] c = "G" -> "g"
      [] c = "T" -> "t" [] OTHER -> c

IsUpper(c) == Lower(c) # c

Primary(c) == CHOOSE i \in 1..Len(CollationOrder) : CollationOrder[i] = Lower(c)

RECURSIVE ComparePrimary(_, _)
ComparePrimary(a, b) ==
    IF a = <<>> THEN (IF b = <<>> THEN 0 ELSE -1)
    ELSE IF b = <<>> THEN 1
    ELSE IF Primary(Head(a)) < Primary(Head(b)) THEN -1
    ELSE IF Primary(Head(a)) > Primary(Head(b)) THEN 1
    ELSE ComparePrimary(Tail(a), Tail(b))

RECURSIVE CompareCase(_, _)
CompareCase(a, b) ==
    IF a = <<>> \/ b = <<>> THEN 0
    ELSE IF ~IsUpper(Head(a)) /\ IsUpper(Head(b)) THEN -1
    ELSE IF IsUpper(Head(a)) /\ ~IsUpper(Head(b)) THEN 1
    ELSE CompareCase(Tail(a), Tail(b))

LocaleCompare(a, b) ==
    IF ComparePrimary(a, b) # 0 THEN ComparePrimary(a, b) ELSE CompareCase(a, b)

----------------------------------------------------------------------------
(* FileExplorer.sortedFiles: the comparator and Array.prototype.sort *)

SortFields == {"name", "modified", "size", "type"}

\* The switch (sortBy) of the comparator, for two items of one type.
CompareField(a, b, field, dir) ==
    CASE field = "name" ->
           IF dir = "asc" THEN LocaleCompare(a.name, b.name)
           ELSE LocaleCompare(b.name, a.name)
      [] field = "modified" ->
           IF a.lastModified = <<>> \/ b.lastModified = <<>> THEN 0
           ELSE IF dir = "asc" THEN LocaleCompare(a.lastModified, b.lastModified)
           ELSE LocaleCompare(b.lastModified, a.lastModified)
      [] field = "size" ->
           IF a.size = <<>> \/ b.size = <<>> THEN 0
           ELSE IF dir = "asc" THEN LocaleCompare(a.size, b.size)
           ELSE LocaleCompare(b.size, a.size)
      [] field = "type" ->
           IF a.contentType = <<>> \/ b.contentType = <<>> THEN 0
           ELSE IF dir = "asc" THEN LocaleCompare(a.contentType, b.contentType)
           ELSE LocaleCompare(b.contentType, a.contentType)
      [] OTHER -> 0

\* The comparator with the sign of its folder test inverted.
CompareFoldersLast(a, b, field, dir) ==
    IF a.type # b.type THEN (IF a.type = "folder" THEN 1 ELSE -1)
    ELSE CompareField(a, b, field, dir)

\* The comparator (a, b) => ... of sortedFiles: folders first, then the field.
Compare(a, b, field, dir) ==
    IF a.type # b.type THEN (IF a.type = "folder" THEN -1 ELSE 1)
    ELSE CompareField(a, b, field, dir)

Reverse(seq) == [i \in 1..Len(seq) |-> seq[Len(seq) + 1 - i]]

\* V8 (array-sort.tq), arrays shorter than 64: CountAndMakeRun, the length of the
\* initial run of seq, ascending or strictly descending.
RECURSIVE RunLength(_, _, _, _, _)
RunLength(seq, idx, isDescending, field, dir) ==
    IF idx > Len(seq) THEN idx - 1
    ELSE LET order == Compare(seq[idx], seq[idx - 1], field, dir)
         IN IF (isDescending /\ order >= 0) \/ (~isDescending /\ order < 0)
            THEN idx - 1
            ELSE RunLength(seq, idx + 1, isDescending, field, dir)

\* V8: BinaryInsertionSort's search of the place of pivot in seq[left+1 .. right].
RECURSIVE InsertionPoint(_, _, _, _, _, _)
InsertionPoint(seq, pivot, left, right, field, dir) ==
    IF left >= right THEN left
    ELSE LET mid == left + ((right - left) \div 2)
         IN IF Compare(pivot, seq[mid + 1], field, dir) < 0
            THEN InsertionPoint(seq, pivot, left, mid, field, dir)
            ELSE InsertionPoint(seq, pivot, mid + 1, right, field, dir)

\* V8: BinaryInsertionSort from index start (0-based) on.
RECURSIVE BinaryInsertionSort(_, _, _, _)
BinaryInsertionSort(seq, start, field, dir) ==
    IF start >= Len(seq) THEN seq
    ELSE LET pivot == seq[start + 1]
             at == InsertionPoint(seq, pivot, 0, start, field, dir)
             moved == SubSeq(seq, 1, at) \o <<pivot>> \o SubSeq(seq, at + 1, start)
                      \o SubSeq(seq, start + 2, Len(seq))
         IN BinaryInsertionSort(moved, start + 1, field, dir)

TimSort(seq, field, dir) ==
    IF Len(seq) < 2 THEN seq
    ELSE LET isDescending == Compare(seq[2], seq[1], field, dir) < 0
             run == RunLength(seq, 3, isDescending, field, dir)
             made == IF isDescending
                     THEN Reverse(SubSeq(seq, 1, run)) \o SubSeq(seq, run + 1, Len(seq))
                     ELSE seq
         IN BinaryInsertionSort(made, run, field, dir)

\* JavaScriptCore (ArrayPrototype.js): merge of two adjacent sorted runs, the right
\* element taken when comparator(right, left) < 0.
RECURSIVE Merge(_, _, _, _)
Merge(left, right, field, dir) ==
    IF right = <<>> THEN left
    ELSE IF left = <<>> THEN right
    ELSE IF Compare(Head(right), Head(left), field, dir) < 0
         THEN <<Head(right)>> \o Merge(left, Tail(right), field, dir)
         ELSE <<Head(left)>> \o Merge(Tail(left), right, field, dir)

Min(a, b) == IF a < b THEN a ELSE b

\* JavaScriptCore: one pass of the bottom-up merge sort over runs of `width`.
RECURSIVE MergePass(_, _, _, _, _)
MergePass(seq, srcIndex, width, field, dir) ==
    IF srcIndex >= Len(seq) THEN <<>>
    ELSE LET leftEnd == Min(srcIndex + width, Len(seq))
             rightEnd == Min(leftEnd + width, Len(seq))
         IN Merge(SubSeq(seq, srcIndex + 1, leftEnd), SubSeq(seq, leftEnd + 1, rightEnd),
                  field, dir)
            \o MergePass(seq, srcIndex + 2 * width, width, field, dir)

RECURSIVE MergeSortFrom(_, _, _, _)
MergeSortFrom(seq, width, field, dir) ==
    IF width >= Len(seq) THEN seq
    ELSE MergeSortFrom(MergePass(seq, 0, width, field, dir), 2 * width, field, dir)

MergeSort(seq, field, dir) == MergeSortFrom(seq, 1, field, dir)

Engines == {"timsort", "mergesort"}

\* [...fileItems].sort(comparator), by the algorithm of the webview's engine.
ArraySort(seq, field, dir) ==
    IF engine = "timsort" THEN TimSort(seq, field, dir) ELSE MergeSort(seq, field, dir)

SortedFiles == ArraySort(FileItems, sortBy, sortDirection)

\* FileExplorer.handleSort: a click on a column header.
HandleSort(field) ==
    /\ activePage = "files"
    /\ IF sortBy = field
       THEN /\ sortDirection' = (IF sortDirection = "asc" THEN "desc" ELSE "asc")
            /\ UNCHANGED sortBy
       ELSE /\ sortBy' = field
            /\ sortDirection' = "asc"
    /\ UNCHANGED <<navVars, engine, opsVars, sideVars>>

----------------------------------------------------------------------------
(* Specification of the sort: an explorer showing any listing of up to     *)
(* MaxSortObjects objects and one common prefix, sorted by any field.      *)

MaxSortObjects == 3

SortObjects ==
    { Obj(<<"a">>, 921600, Date(10, 1), <<"t">>),
      Obj(<<"b">>, 1048576, Date(2, 1), <<>>),
      Obj(<<"c">>, 0, NoDate, <<"t">>),
      Obj(<<"e">>, 512, Date(3, 1), <<"p">>),
      [Obj(<<"d">>, 0, NoDate, <<>>) EXCEPT !.is_folder = TRUE] }

DistinctKeys(objs) == \A i, j \in 1..Len(objs) : objs[i].key = objs[j].key => i = j

SortListings ==
    {objs \in UNION {[1..n -> SortObjects] : n \in 0..MaxSortObjects} : DistinctKeys(objs)}

SortInit ==
    /\ activePage = "files"
    /\ selectedBucket \in Buckets
    /\ currentPath = Root
    /\ appSelectedFile = NoSelection
    /\ selectedFile = NoSelection
    /\ objects \in SortListings
    /\ folders \in {<<>>, << <<"z", Slash>> >>}
    /\ loading = FALSE
    /\ error = NoError
    /\ inflight = {}
    /\ nextId = 1
    /\ pageCalls = [i \in Ids |-> 0]
    /\ latest = 0
    /\ outcome = NoOutcome
    /\ applied = NotApplied
    /\ cancelled = {}
    /\ sortBy = "name"
    /\ sortDirection = "asc"
    /\ engine \in Engines
    /\ OpsIdle
    /\ SideIdle

SortNext == \E field \in SortFields : HandleSort(field)

SpecSort == SortInit /\ [][SortNext]_vars

----------------------------------------------------------------------------
(* Claims on the sort *)

Before(i, j) == i \in 1..Len(SortedFiles) /\ j \in 1..Len(SortedFiles) /\ i < j

\* C6: folder-first. For every set of items, every sort field and both directions,
\* every folder precedes every file in the sorted list, items whose compared field
\* is missing included.
C6_FolderFirst ==
    activePage = "files"
    => \A i, j \in 1..Len(SortedFiles) :
          Before(i, j) => ~(SortedFiles[i].type = "file" /\ SortedFiles[j].type = "folder")

\* C6 witness: sorted by modified, descending, a listing in which a file comes
\* before a folder and a file has no modification date.
C6_Witness ==
    /\ sortBy = "modified"
    /\ sortDirection = "desc"
    /\ \E i, j \in 1..Len(FileItems) :
          i < j /\ FileItems[i].type = "file" /\ FileItems[j].type = "folder"
    /\ \E i \in 1..Len(FileItems) :
          FileItems[i].type = "file" /\ FileItems[i].lastModified = <<>>
    /\ \E i \in 1..Len(FileItems) :
          FileItems[i].type = "file" /\ FileItems[i].lastModified # <<>>

ComparedField(item) == IF sortBy = "modified" THEN item.lastModified ELSE item.size

\* C7: missing-field placement. Sorted by modified or by size, in either direction,
\* within the files and within the folders every item lacking the field comes after
\* every item that has it.
C7_MissingFieldLast ==
    sortBy \in {"modified", "size"}
    => \A i, j \in 1..Len(SortedFiles) :
          (Before(i, j) /\ SortedFiles[i].type = SortedFiles[j].type)
          => ~(ComparedField(SortedFiles[i]) = <<>> /\ ComparedField(SortedFiles[j]) # <<>>)

\* The byte size of the object an item was made from (id file-<index>).
Bytes(item) == objects[item.id[2] + 1].size

\* C8: sorted by size, two files that both have a size are in the order of their
\* byte sizes: the smaller first ascending, the larger first descending.
C8_SizeNumeric ==
    sortBy = "size"
    => \A i, j \in 1..Len(SortedFiles) :
          (/\ Before(i, j)
           /\ SortedFiles[i].type = "file" /\ SortedFiles[j].type = "file"
           /\ SortedFiles[i].size # <<>> /\ SortedFiles[j].size # <<>>)
          => IF sortDirection = "asc"
             THEN Bytes(SortedFiles[i]) <= Bytes(SortedFiles[j])
             ELSE Bytes(SortedFiles[i]) >= Bytes(SortedFiles[j])

\* C9: sorted by type, ascending, two files of one type (names without extension
\* and the same stored content type, so the same category and display name) are in
\* the order of their names: the name is the final tie-break.
C9_TypeThenName ==
    (sortBy = "type" /\ sortDirection = "asc")
    => \A i, j \in 1..Len(SortedFiles) :
          (/\ Before(i, j)
           /\ SortedFiles[i].type = "file" /\ SortedFiles[j].type = "file"
           /\ SortedFiles[i].contentType = SortedFiles[j].contentType)
          => LocaleCompare(SortedFiles[i].name, SortedFiles[j].name) <= 0

----------------------------------------------------------------------------
(* Specification of the projection: the explorer navigating a bucket whose   *)
(* lister answers any response of up to MaxViewObjects objects and           *)
(* MaxViewFolders common prefixes, whether or not it fits the prefix asked.  *)

MaxViewObjects == 1

MaxViewFolders == 2

ViewObjects ==
    { Obj(<<"f">>, 300, Date(1, 2), <<"t">>),
      Obj(<<"a", "/", "i">>, 2048, Date(2, 1), <<"t">>),
      Obj(<<"a", "/">>, 0, NoDate, <<>>),
      Obj(<<"a", "/", "/", "i">>, 700, Date(3, 1), <<"p">>),
      [Obj(<<"d">>, 0, NoDate, <<"t">>) EXCEPT !.is_folder = TRUE] }

ViewPrefixes == { <<"a", "/">>, <<"a", "/", "b", "/">>, <<".", ".", "/">> }

ViewPages ==
    {ListPage(objs, cps, FALSE, NoToken) :
        objs \in {o \in UNION {[1..n -> ViewObjects] : n \in 0..MaxViewObjects} :
                     DistinctKeys(o)},
        cps \in UNION {[1..n -> ViewPrefixes] : n \in 0..MaxViewFolders}}

\* The response of a lister that answers `page`.
ListObjectsAnswered(r, page) == ListObjectsReturned(r, page, "any", 0)

ViewNext ==
    \/ \E b \in Buckets : HandleBucketSelect(b)
    \/ \E i \in 1..Len(FileItems) :
          FileItems[i].type = "folder" /\ HandleFileClick(FileItems[i])
    \/ \E i \in 1..Len(Breadcrumbs(currentPath)) : HandlePathClick(Breadcrumbs(currentPath)[i])
    \/ \E r \in inflight, page \in ViewPages : ListObjectsAnswered(r, page)

SpecView == Init /\ [][ViewNext]_vars

----------------------------------------------------------------------------
(* Claims on paths and on the projection *)

\* The segments of a path string, the empty ones included.
Segments(path) ==
    LET parts == Split(path, Slash) IN SubSeq(parts, 2, Len(parts) - 1)

ValidSegment(seg) ==
    /\ seg # <<>>
    /\ ~Includes(seg, Slash)
    /\ seg \notin { <<".">>, <<".", ".">> }

WellFormedPath(path) ==
    /\ StartsWith(path, <<Slash>>)
    /\ EndsWith(path, <<Slash>>)
    /\ path # Root => \A i \in 1..Len(Segments(path)) : ValidSegment(Segments(path)[i])

WellFormedPrefix(prefix) == WellFormedPath(<<Slash>> \o prefix)

\* A storage prefix split back into segments and built up as the breadcrumbs
\* build a path.
FromPrefix(prefix) ==
    LET crumbs == BreadcrumbPaths(SelectSeq(Split(prefix, Slash), NonEmpty))
    IN crumbs[Len(crumbs)]

\* C11: round trip. The current path, when well-formed, is what its storage prefix
\* splits back into, and every well-formed prefix sent to the lister is the prefix
\* of the path it splits into.
C11_RoundTrip ==
    /\ WellFormedPath(currentPath) => FromPrefix(PathToPrefix(currentPath)) = currentPath
    /\ \A r \in inflight :
          WellFormedPrefix(r.prefix) => PathToPrefix(FromPrefix(r.prefix)) = r.prefix

\* C11 witness: a well-formed path two folders deep whose listing is requested.
C11_Witness ==
    /\ WellFormedPath(currentPath)
    /\ Len(Segments(currentPath)) = 2
    /\ \E r \in inflight : r.path = currentPath /\ WellFormedPrefix(r.prefix)

\* C13: no segment of the current path is empty, contains "/", or is "." or "..".
C13_SegmentsValid == WellFormedPath(currentPath)

\* The item made from common prefix i / from object i of the view, if any.
FolderItemsAt(i) == {j \in 1..Len(FileItems) : FileItems[j].id = <<"folder", i - 1>>}

ObjectItemsAt(i) == {j \in 1..Len(FileItems) : FileItems[j].id = <<"file", i - 1>>}

\* C14: a common prefix that does not start with the current storage prefix, or
\* is empty after the current prefix is stripped, makes no folder of the view.
C14_ForeignPrefixDiscarded ==
    \A i \in 1..Len(folders) :
       (\/ ~StartsWith(folders[i], ListedPrefix(currentPath))
        \/ Remainder(folders[i], ListedPrefix(currentPath)) = <<>>)
       => FolderItemsAt(i) = {}

\* C15: no two folder items of the view have the same name.
C15_FolderNamesDistinct ==
    \A i, j \in 1..Len(FileItems) :
       (/\ FileItems[i].type = "folder" /\ FileItems[j].type = "folder"
        /\ FileItems[i].name = FileItems[j].name)
       => i = j

\* C16: an object of the listing is a file of the view exactly when its key starts
\* with the current storage prefix, does not end in "/", and the remainder is
\* non-empty without a further "/"; the file's name is that remainder.  Prefix ""
\* with entry "f" and common prefix "a/" gives folder a and file f.
C16_FileIffDirectChild ==
    /\ \A i \in 1..Len(objects) :
          LET key == objects[i].key
              prefix == ListedPrefix(currentPath)
              rest == Remainder(key, prefix)
              direct == /\ StartsWith(key, prefix)
                        /\ ~EndsWith(key, <<Slash>>)
                        /\ rest # <<>>
                        /\ ~Includes(rest, Slash)
          IN /\ direct <=> \E j \in ObjectItemsAt(i) : FileItems[j].type = "file"
             /\ \A j \in ObjectItemsAt(i) : FileItems[j].name = rest
    /\ (/\ currentPath = Root
        /\ folders = << <<"a", "/">> >>
        /\ Len(objects) = 1 /\ objects[1].key = <<"f">>)
       => /\ Len(FileItems) = 2
          /\ FileItems[1].type = "folder" /\ FileItems[1].name = <<"a">>
          /\ FileItems[2].type = "file" /\ FileItems[2].name = <<"f">>

\* C17: an item of the view that is a folder carries no content type, whether it
\* was made from a common prefix or from a listed object.
C17_FolderNoTypeInfo ==
    \A i \in 1..Len(FileItems) :
       FileItems[i].type = "folder" => FileItems[i].contentType = <<>>

----------------------------------------------------------------------------
(* Per-file operations of the explorer: the download URL effect, download,  *)
(* copy link and delete                                                     *)

\* generateDownloadUrls, handleDownload, handleCopyLink: fileKey
FileKey(path, name) ==
    IF path = Root THEN name
    ELSE LET prefix == Substring(path, 1)
         IN (IF ~EndsWith(prefix, <<Slash>>) THEN prefix \o <<Slash>> ELSE prefix) \o name

\* confirmDelete: fileKey
DeleteKey(path, name) ==
    IF path = Root THEN name
    ELSE Substring(path, 1)
         \o (IF ~EndsWith(Substring(path, 1), <<Slash>>) THEN <<Slash>> ELSE <<>>)
         \o name

HasUrl(urls, id) == \E u \in urls : u.id = id

UrlOf(urls, id) == (CHOOSE u \in urls : u.id = id).url

\* {...prev, [id]: url}; a presigned URL is modelled by the key it was made for.
WithUrl(urls, id, url) == {u \in urls : u.id # id} \cup {[id |-> id, url |-> url]}

IsFile(item) == item.type = "file"

\* generateDownloadUrls as its effect starts: the files of the render and an empty
\* urlMap.
StartUrlRun(path, flds, objs, err) ==
    [path |-> path, files |-> SelectSeq(ConvertToFileItems(path, flds, objs), IsFile),
     pos |-> 1, urlMap |-> NoUrls, failed |-> {}, view |-> <<objs, flds, err>>]

\* urlMap[file.id] = response.url
UrlSucceeded(run, url) ==
    [run EXCEPT !.urlMap = WithUrl(@, run.files[run.pos].id, url), !.pos = @ + 1]

\* A loop without the try/catch around each file: the first failure ends the effect.
UrlFailedAborts(run) ==
    [run EXCEPT !.failed = @ \cup {run.files[run.pos].id}, !.pos = Len(run.files) + 1]

\* The catch inside the loop: console.error, and the loop goes on.
UrlFailed(run) ==
    [run EXCEPT !.failed = @ \cup {run.files[run.pos].id}, !.pos = @ + 1]

\* One await of generateDownloadUrls' loop returns or throws; after the last file,
\* setDownloadUrl(urlMap).
GenerateDownloadUrl(ok) ==
    /\ activePage = "files"
    /\ urlRun.pos <= Len(urlRun.files)
    /\ LET file == urlRun.files[urlRun.pos]
           key == FileKey(urlRun.path, file.name)
           run == IF ok THEN UrlSucceeded(urlRun, key) ELSE UrlFailed(urlRun)
       IN /\ urlRun' = run
          /\ lastCall' = [op |-> "presign", file |-> file, path |-> urlRun.path, key |-> key]
          /\ downloadUrl' = IF run.pos > Len(run.files) THEN run.urlMap ELSE downloadUrl
    /\ UNCHANGED <<navVars, sortVars, sideVars, activeModal>>

\* FileExplorer.handleDownload: the cached URL, or a URL generated for fileKey.
HandleDownload(file, ok) ==
    /\ activePage = "files"
    /\ activeModal = NoModal
    /\ selectedBucket # NoBucket
    /\ file.type # "folder"
    /\ IF HasUrl(downloadUrl, file.id)
       THEN /\ lastCall' = [op |-> "download", file |-> file, path |-> currentPath,
                            key |-> UrlOf(downloadUrl, file.id)]
            /\ UNCHANGED <<downloadUrl, activeModal>>
       ELSE LET key == FileKey(currentPath, file.name)
            IN /\ lastCall' = [op |-> "download", file |-> file, path |-> currentPath,
                               key |-> key]
               /\ IF ok
                  THEN /\ downloadUrl' = WithUrl(downloadUrl, file.id, key)
                       /\ activeModal' = NoModal
                  ELSE /\ activeModal' = [type |-> "error", file |-> file]
                       /\ UNCHANGED downloadUrl
    /\ UNCHANGED <<navVars, sortVars, sideVars, urlRun>>

\* FileExplorer.handleCopyLink: the cached URL, or a URL generated for fileKey, is
\* written to the clipboard.
HandleCopyLink(file, ok) ==
    /\ activePage = "files"
    /\ activeModal = NoModal
    /\ selectedBucket # NoBucket
    /\ file.type # "folder"
    /\ IF HasUrl(downloadUrl, file.id)
       THEN /\ lastCall' = [op |-> "copy", file |-> file, path |-> currentPath,
                            key |-> UrlOf(downloadUrl, file.id)]
            /\ activeModal' = [type |-> IF ok THEN "success" ELSE "error", file |-> NoFile]
            /\ UNCHANGED downloadUrl
       ELSE LET key == FileKey(currentPath, file.name)
            IN /\ lastCall' = [op |-> "copy", file |-> file, path |-> currentPath,
                               key |-> key]
               /\ IF ok
                  THEN /\ downloadUrl' = WithUrl(downloadUrl, file.id, key)
                       /\ activeModal' = [type |-> "success", file |-> NoFile]
                  ELSE /\ activeModal' = [type |-> "error", file |-> file]
                       /\ UNCHANGED downloadUrl
    /\ UNCHANGED <<navVars, sortVars, sideVars, urlRun>>

\* A Delete button that deletes at once, without the confirmation modal.
HandleDeleteNoConfirm(file) ==
    /\ activePage = "files"
    /\ activeModal = NoModal
    /\ selectedBucket # NoBucket
    /\ lastCall' = [op |-> "delete", file |-> file, path |-> currentPath,
                    key |-> DeleteKey(currentPath, file.name)]
    /\ IssueListing(currentPath, "refresh", inflight)
    /\ UNCHANGED <<activePage, selectedBucket, currentPath, appSelectedFile, selectedFile,
                   objects, folders, applied, sortVars, sideVars, downloadUrl, activeModal, urlRun>>

\* FileExplorer.handleDelete: the confirmation modal, for files and folders alike.
HandleDelete(file) ==
    /\ activePage = "files"
    /\ activeModal = NoModal
    /\ selectedBucket # NoBucket
    /\ activeModal' = [type |-> "confirm", file |-> file]
    /\ UNCHANGED <<navVars, sortVars, sideVars, downloadUrl, urlRun, lastCall>>

\* FileExplorer.confirmDelete: deleteObject(fileKey), then handleRefresh().
ConfirmDelete(ok) ==
    /\ activePage = "files"
    /\ activeModal.type = "confirm"
    /\ selectedBucket # NoBucket
    /\ lastCall' = [op |-> "delete", file |-> activeModal.file, path |-> currentPath,
                    key |-> DeleteKey(currentPath, activeModal.file.name)]
    /\ IF ok
       THEN /\ activeModal' = NoModal
            /\ IssueListing(currentPath, "refresh", inflight)
       ELSE /\ activeModal' = [type |-> "error", file |-> activeModal.file]
            /\ UNCHANGED <<inflight, nextId, pageCalls, latest, outcome, cancelled,
                           loading, error>>
    /\ UNCHANGED <<activePage, selectedBucket, currentPath, appSelectedFile, selectedFile,
                   objects, folders, applied, sortVars, sideVars, downloadUrl, urlRun>>

\* The modal's Close / Cancel button, and the timeout that closes a success modal.
CloseModal ==
    /\ activePage = "files"
    /\ activeModal.type \in {"error", "success", "confirm"}
    /\ activeModal' = NoModal
    /\ UNCHANGED <<navVars, sortVars, sideVars, downloadUrl, urlRun, lastCall>>

----------------------------------------------------------------------------
(* Specification of the per-file operations: an explorer that has just set   *)
(* its view from the answer to its first listing, at the root or in folder   *)
(* a, the download URL effect of that view starting.                         *)

MaxOpsObjects == 2

OpsPaths == {Root, <<Slash, "a", Slash>>}

OpsListings ==
    {objs \in UNION {[1..n -> ViewObjects] : n \in 0..MaxOpsObjects} : DistinctKeys(objs)}

OpsFolders == UNION {[1..n -> ViewPrefixes] : n \in 0..1}

OpsInit ==
    /\ activePage = "files"
    /\ selectedBucket \in Buckets
    /\ currentPath \in OpsPaths
    /\ appSelectedFile = NoSelection
    /\ selectedFile = NoSelection
    /\ objects \in OpsListings
    /\ folders \in OpsFolders
    /\ loading = FALSE
    /\ error = NoError
    /\ inflight = {}
    /\ nextId = 2
    /\ pageCalls = [i \in Ids |-> IF i = 1 THEN 1 ELSE 0]
    /\ latest = 1
    /\ outcome = [st |-> "ok", prefix |-> ListedPrefix(currentPath), kind |-> "any",
                  cut |-> 0]
    /\ applied = [id |-> 1, prefix |-> ListedPrefix(currentPath), kind |-> "any",
                  cut |-> 0]
    /\ cancelled = {}
    /\ SortIdle
    /\ downloadUrl = NoUrls
    /\ activeModal = NoModal
    /\ urlRun = StartUrlRun(currentPath, folders, objects, error)
    /\ lastCall = NoCall
    /\ SideIdle

OpsNext ==
    \/ \E ok \in BOOLEAN : GenerateDownloadUrl(ok)
    \/ \E i \in 1..Len(FileItems), ok \in BOOLEAN : HandleDownload(FileItems[i], ok)
    \/ \E i \in 1..Len(FileItems), ok \in BOOLEAN : HandleCopyLink(FileItems[i], ok)
    \/ \E i \in 1..Len(FileItems) : HandleDelete(FileItems[i])
    \/ \E ok \in BOOLEAN : ConfirmDelete(ok)
    \/ CloseModal

SpecOps == OpsInit /\ [][OpsNext]_vars

----------------------------------------------------------------------------
(* Claims on the per-file operations *)

\* C18: the storage key of every download, copy-link, delete and URL generation
\* is the storage prefix of the path, the item's name and, for a folder, a closing
\* "/"; for a file made from a listed object it is that object's key.
C18_OperationKey ==
    lastCall.op # "none"
    => /\ lastCall.key = ListedPrefix(lastCall.path) \o lastCall.file.name
                         \o (IF lastCall.file.type = "folder" THEN <<Slash>> ELSE <<>>)
       /\ (lastCall.file.type = "file" /\ lastCall.file.id[1] = "file")
          => lastCall.key = objects[lastCall.file.id[2] + 1].key

FileIds(items) == {items[i].id : i \in {j \in 1..Len(items) : items[j].type = "file"}}

\* C20: once the download URL effect has gone through the view, every file of the
\* view was attempted (it failed or has a URL) although some failed, every URL
\* obtained is stored, for the key generated, and objects, folders and error are
\* those the effect started from.
C20_UrlFailureIsolated ==
    (urlRun.pos > Len(urlRun.files) /\ urlRun.failed # {})
    => /\ FileIds(FileItems) = urlRun.failed \cup {u.id : u \in urlRun.urlMap}
       /\ urlRun.failed \cap {u.id : u \in urlRun.urlMap} = {}
       /\ \A u \in urlRun.urlMap : HasUrl(downloadUrl, u.id) /\ UrlOf(downloadUrl, u.id) = u.url
       /\ <<objects, folders, error>> = urlRun.view

\* C20 witness: of two files of the view the first failed and the second, attempted
\* after it, has its URL stored.
C20_Witness ==
    /\ Len(urlRun.files) = 2
    /\ urlRun.pos > Len(urlRun.files)
    /\ urlRun.files[1].id \in urlRun.failed
    /\ HasUrl(downloadUrl, urlRun.files[2].id)

----------------------------------------------------------------------------
(* Claims on the explorer's loading flag and selection *)

\* C25: in the mounted explorer the loading flag is true exactly when at least one
\* listing request (load or refresh) is outstanding, in every interleaving.
C25_LoadingIffOutstanding ==
    activePage = "files" => (loading <=> LiveInflight # {})

\* C30: every step that changes the path or the bucket leaves no file selected,
\* neither in App's selectedFile nor in the explorer's own selection.
C30_SelectionReset ==
    [][(currentPath' # currentPath \/ selectedBucket' # selectedBucket)
       => (appSelectedFile' = NoSelection /\ selectedFile' = NoSelection)]_vars

----------------------------------------------------------------------------
(* Claims on delete *)

\* The step is a deleteObject call that succeeded: the modal closes and a refresh
\* of the current listing starts.
DeleteSucceeded ==
    /\ activeModal' = NoModal
    /\ \E r \in inflight' \ inflight : r.how = "refresh" /\ r.path = currentPath /\ r.live

\* The step is a deleteObject call that failed: the error modal, and no listing.
DeleteFailed ==
    /\ activeModal'.type = "error"
    /\ inflight' = inflight

\* C28: a deleteObject call is issued only from the confirmation modal of the same
\* item; it closes the modal and starts a refresh of the current listing, or shows
\* the error modal and starts no refresh; the confirmation modal is left either by
\* such a call or (Cancel) without any call and without a listing.
C28_DeleteConfirmed ==
    [][/\ (lastCall'.op = "delete" /\ lastCall' # lastCall)
          => /\ activeModal = [type |-> "confirm", file |-> lastCall'.file]
             /\ DeleteSucceeded \/ DeleteFailed
       /\ (activeModal.type = "confirm" /\ activeModal' # activeModal)
          => \/ /\ lastCall'.op = "delete"
                /\ lastCall'.file = activeModal.file
                /\ DeleteSucceeded \/ DeleteFailed
             \/ /\ activeModal' = NoModal
                /\ lastCall' = lastCall
                /\ inflight' = inflight]_vars

\* C28 witness: a confirmed delete succeeded, its modal is closed and the refresh it
\* started is outstanding.
C28_Witness ==
    /\ lastCall.op = "delete"
    /\ activeModal = NoModal
    /\ \E r \in inflight : r.how = "refresh" /\ r.path = currentPath

----------------------------------------------------------------------------
(* File types: S3Service.getContentType and getFileIcon.  A file name is a   *)
(* sequence of characters; an icon is named by what its emoji shows.         *)

Dot == "."

UpperLetters ==
    <<"A", "B", "C", "D", "E", "F", "G", "H", "I", "J", "K", "L", "M", "N", "O", "P", "Q",
      "R", "S", "T", "U", "V", "W", "X", "Y", "Z">>

LowerLetters ==
    <<"a", "b", "c", "d", "e", "f", "g", "h", "i", "j", "k", "l", "m", "n", "o", "p", "q",
      "r", "s", "t", "u", "v", "w", "x", "y", "z">>

\* String.prototype.toLowerCase
ToLowerCase(s) ==
    [i \in 1..Len(s) |->
        IF \E k \in 1..Len(UpperLetters) : UpperLetters[k] = s[i]
        THEN LowerLetters[CHOOSE k \in 1..Len(UpperLetters) : UpperLetters[k] = s[i]]
        ELSE s[i]]

\* name.split('.').pop()?.toLowerCase()
Extension(name) ==
    LET parts == Split(name, Dot) IN ToLowerCase(parts[Len(parts)])

\* S3Service.getContentType
GetContentType(filename) ==
    LET extension == Extension(filename)
    IN CASE
         extension = <<"j", "p", "g">> -> "image/jpeg"
      [] extension = <<"j", "p", "e", "g">> -> "image/jpeg"
      [] extension = <<"p", "n", "g">> -> "image/png"
      [] extension = <<"g", "i", "f">> -> "image/gif"
      [] extension = <<"p", "d", "f">> -> "application/pdf"
      [] extension = <<"t", "x", "t">> -> "text/plain"
      [] extension = <<"h", "t", "m", "l">> -> "text/html"
      [] extension = <<"c", "s", "s">> -> "text/css"
      [] extension = <<"j", "s">> -> "application/javascript"
      [] extension = <<"j", "s", "o", "n">> -> "application/json"
      [] extension = <<"x", "m", "l">> -> "application/xml"
      [] extension = <<"z", "i", "p">> -> "application/zip"
      [] extension = <<"m", "p", "4">> -> "video/mp4"
      [] extension = <<"m", "p", "3">> -> "audio/mpeg"
      [] OTHER -> "application/octet-stream"

\* S3Service.getFileIcon
GetFileIcon(objectInfo) ==
    IF objectInfo.is_folder THEN "folder"
    ELSE LET extension == Extension(objectInfo.key)
         IN CASE
         extension \in {<<"j", "p", "g">>, <<"j", "p", "e", "g">>, <<"p", "n", "g">>, <<"g", "i", "f">>, <<"b", "m", "p">>, <<"s", "v", "g">>} -> "image"
      [] extension \in {<<"p", "d", "f">>} -> "page"
      [] extension \in {<<"d", "o", "c">>, <<"d", "o", "c", "x">>} -> "memo"
      [] extension \in {<<"x", "l", "s">>, <<"x", "l", "s", "x">>} -> "chart"
      [] extension \in {<<"z", "i", "p">>, <<"r", "a", "r">>, <<"7", "z">>} -> "clamp"
      [] extension \in {<<"m", "p", "4">>, <<"a", "v", "i">>, <<"m", "o", "v">>, <<"w", "m", "v">>} -> "film"
      [] extension \in {<<"m", "p", "3">>, <<"w", "a", "v">>, <<"f", "l", "a", "c">>} -> "music"
      [] extension \in {<<"j", "s", "o", "n">>, <<"x", "m", "l">>, <<"y", "a", "m", "l">>, <<"y", "m", "l">>} -> "gear"
      [] OTHER -> "page"

\* The type of one listed object is looked up.
Classify(isFolder) ==
    /\ detected = NoDetection
    /\ detected' = [rule |-> Extension(fileName),
                    contentType |-> GetContentType(fileName),
                    icon |-> GetFileIcon([key |-> fileName, is_folder |-> isFolder])]
    /\ UNCHANGED <<navVars, sortVars, opsVars, staleRuns, settingsVars, fileName>>

----------------------------------------------------------------------------
(* Specification of the type lookup: one file name out of stems and up to    *)
(* MaxSegments extensions is looked up.                                      *)

MaxSegments == 2

TypeStems == {<<>>, <<"a">>, <<"D", "o", "c", "k", "e", "r", "f", "i", "l", "e">>, <<"M", "a", "k", "e", "f", "i", "l", "e">>}

TypeExtensions ==
    {<<"g", "z">>,
     <<"t", "a", "r">>,
     <<"j", "s">>,
     <<"m", "i", "n">>,
     <<"J", "P", "G">>,
     <<"g", "i", "t", "i", "g", "n", "o", "r", "e">>,
     <<"e", "n", "v">>,
     <<"z", "i", "p">>}

RECURSIVE WithExtensions(_, _)
WithExtensions(names, n) ==
    IF n = 0 THEN names
    ELSE names \cup WithExtensions({name \o <<Dot>> \o e : name \in names,
                                                          e \in TypeExtensions}, n - 1)

TypeNames == WithExtensions(TypeStems, MaxSegments) \ {<<>>}

TypeInit ==
    /\ NavInit
    /\ SortIdle
    /\ OpsIdle
    /\ staleRuns = {}
    /\ backend = NoSettings
    /\ settings = NoSettings
    /\ hookSettings = NoSettings
    /\ notifications = 0
    /\ invokes = {}
    /\ nextCall = 1
    /\ lastDone = NoDone
    /\ isDarkMode = FALSE
    /\ prefersDark = FALSE
    /\ connectionStatus = "disconnected"
    /\ activeConnection = NoConnection
    /\ tests = {}
    /\ nextTest = 1
    /\ testResult = [n \in ConnectionNames |-> NoTest]
    /\ fileName \in TypeNames
    /\ detected = NoDetection

TypeNext == \E isFolder \in BOOLEAN : Classify(isFolder)

SpecType == TypeInit /\ [][TypeNext]_vars

----------------------------------------------------------------------------
(* Claims on the type lookup *)

\* The compound extensions of the type table (File Type Detection, Special Cases).
CompoundExtensions ==
    {<<"t", "a", "r", ".", "g", "z">>, <<"m", "i", "n", ".", "j", "s">>,
     <<"s", "p", "e", "c", ".", "j", "s">>, <<"c", "o", "n", "f", "i", "g", ".", "j", "s">>}

EndsWithExtension(name, ext) == EndsWith(name, <<Dot>> \o ext)

\* C21: a file name that ends in a compound extension of the table, and so also in
\* a shorter one, is resolved by the longest extension of the table it ends in;
\* a name ending in .tar.gz is shown as an archive.
C21_LongestSuffix ==
    (detected # NoDetection /\ detected.icon # "folder")
    => \A ext \in CompoundExtensions :
          EndsWithExtension(fileName, ext)
          => /\ detected.rule = ext
             /\ ext = <<"t", "a", "r", ".", "g", "z">> => detected.icon = "clamp"

\* The special-file table (File Type Detection, Dotfiles and Files Without Extensions).
SpecialFiles ==
    {<<".", "g", "i", "t", "i", "g", "n", "o", "r", "e">>, <<".", "e", "n", "v">>,
     <<"D", "o", "c", "k", "e", "r", "f", "i", "l", "e">>, <<"M", "a", "k", "e", "f", "i", "l", "e">>}

\* C22: a name that equals, case-sensitively, an entry of the special-file table is
\* resolved by that entry, by its full name, before any extension rule.
C22_SpecialFileFirst ==
    (detected # NoDetection /\ detected.icon # "folder" /\ fileName \in SpecialFiles)
    => detected.rule = fileName

----------------------------------------------------------------------------
(* Settings: the backend's commands, SettingsService, useSettings, Header's  *)
(* theme toggle and App's connection test                                     *)

MaxCalls == 2

MaxTests == 4

MaxConnections == 2

Themes == {"light", "dark", "system"}

Connection(name, isDefault) == [name |-> name, isDefault |-> isDefault]

\* The connections a user adds or puts in the place of another.
Connections == {Connection("A", FALSE), Connection("B", TRUE)}

\* The index of a connection that does not exist, as the test suite passes it.
NoSuchIndex == 999

Indexes == (0..(MaxConnections - 1)) \cup {NoSuchIndex}

ValidIndex(conns, index) == index \in 0..(Len(conns) - 1)

RemoveAt(seq, index) == SubSeq(seq, 1, index) \o SubSeq(seq, index + 2, Len(seq))

\* The backend's command `op` on its settings `b`: the settings it holds afterwards.
\* A command that fails leaves them as they were.
BackendApply(b, op, index, arg) ==
    CASE op = "update_appearance_settings" -> [b EXCEPT !.theme = arg]
      [] op = "add_connection" -> [b EXCEPT !.connections = Append(@, arg)]
      [] op = "update_connection" -> [b EXCEPT !.connections[index + 1] = arg]
      [] op = "remove_connection" -> [b EXCEPT !.connections = RemoveAt(@, index)]
      [] OTHER -> b

\* Whether the backend accepts the command: update_connection and remove_connection
\* are rejected for an index that denotes no connection.
BackendAccepts(b, op, index) ==
    op \in {"update_connection", "remove_connection"} => ValidIndex(b.connections, index)

\* App: settings.connections.find(conn => conn.isDefault) || settings.connections[0]
DefaultConnection(conns) ==
    IF conns = <<>> THEN NoConnection
    ELSE IF \E i \in 1..Len(conns) : conns[i].isDefault
    THEN conns[CHOOSE i \in 1..Len(conns) :
                   conns[i].isDefault /\ \A j \in 1..(i - 1) : ~conns[j].isDefault].name
    ELSE conns[1].name

\* Header.applyTheme
DarkOf(theme, systemDark) ==
    IF theme = "dark" THEN TRUE ELSE IF theme = "light" THEN FALSE ELSE systemDark

\* One run of App's testConnection effect: the status and connection it sets and
\* the connection it starts a test of, NoConnection when it starts none.
TestConnectionRun(conns, active, status) ==
    IF DefaultConnection(conns) = NoConnection
    THEN [status |-> "disconnected", active |-> NoConnection, test |-> NoConnection]
    ELSE IF active = DefaultConnection(conns) /\ status = "connected"
    THEN [status |-> status, active |-> active, test |-> NoConnection]
    ELSE [status |-> "connecting", active |-> DefaultConnection(conns),
          test |-> DefaultConnection(conns)]

\* The runs of the effect after settings.connections changed: activeConnection is a
\* dependency, so a run that sets it to another value is followed by a second run.
TestConnectionEffect(conns, active, status) ==
    LET first == TestConnectionRun(conns, active, status)
        second == TestConnectionRun(conns, first.active, first.status)
    IN IF first.active = active
       THEN [status |-> first.status, active |-> first.active,
             started |-> IF first.test = NoConnection THEN 0 ELSE 1]
       ELSE [status |-> second.status, active |-> second.active,
             started |-> (IF first.test = NoConnection THEN 0 ELSE 1)
                         + (IF second.test = NoConnection THEN 0 ELSE 1)]

TestsStarted(name, from, n) == {[id |-> i, conn |-> name] : i \in from..(from + n - 1)}

\* A service that drops its cached settings when a command is rejected.
SettingsAfterRejectionCleared(cached) == NoSettings

\* The catch of every SettingsService method: console.error and throw; this.settings
\* is left as it is.
SettingsAfterRejection(cached) == cached

\* this.settings = convertFromRust.settings(rustSettings); this.notifyListeners():
\* every useSettings hook sets its settings, Header applies a changed theme and App's
\* testConnection effect runs for the new connections array.
NotifyListeners(s) ==
    LET eff == TestConnectionEffect(s.connections, activeConnection, connectionStatus)
        name == DefaultConnection(s.connections)
    IN /\ nextTest + eff.started - 1 <= MaxTests
       /\ settings' = s
       /\ hookSettings' = s
       /\ notifications' = notifications + 1
       /\ isDarkMode' = IF s.theme # hookSettings.theme THEN DarkOf(s.theme, prefersDark)
                        ELSE isDarkMode
       /\ connectionStatus' = eff.status
       /\ activeConnection' = eff.active
       /\ tests' = tests \cup TestsStarted(name, nextTest, eff.started)
       /\ nextTest' = nextTest + eff.started
       /\ testResult' = IF eff.started = 0 THEN testResult
                        ELSE [testResult EXCEPT ![name] =
                                 [id |-> nextTest + eff.started - 1, result |-> "pending"]]

\* await invoke(op, ...): the backend processes the command, its response is under way.
Invoke(op, index, arg, fails, wasDark) ==
    LET ok == BackendAccepts(backend, op, index) /\ ~fails
    IN /\ settings # NoSettings
       /\ nextCall <= MaxCalls
       /\ nextCall' = nextCall + 1
       /\ backend' = IF ok THEN BackendApply(backend, op, index, arg) ELSE backend
       /\ invokes' = invokes \cup
                        {[id |-> nextCall, op |-> op, index |-> index,
                          valid |-> BackendAccepts(backend, op, index), ok |-> ok,
                          result |-> IF ok THEN BackendApply(backend, op, index, arg)
                                     ELSE NoSettings,
                          wasDark |-> wasDark]}

\* SettingsService.getSettings of an initialized service.
GetSettings(fails) ==
    /\ Invoke("get_settings", 0, NoSettings, fails, FALSE)
    /\ UNCHANGED <<navVars, sortVars, opsVars, staleRuns, typeVars, settings, hookSettings,
                   notifications, lastDone, isDarkMode, prefersDark, connectionStatus,
                   activeConnection, tests, nextTest, testResult>>

\* Header.toggleTheme up to its await of updateAppearanceSettings.
ToggleTheme(fails) ==
    /\ hookSettings # NoSettings
    /\ isDarkMode' = ~isDarkMode
    /\ Invoke("update_appearance_settings", 0, IF isDarkMode THEN "light" ELSE "dark",
              fails, isDarkMode)
    /\ UNCHANGED <<navVars, sortVars, opsVars, staleRuns, typeVars, settings, hookSettings,
                   notifications, lastDone, prefersDark, connectionStatus,
                   activeConnection, tests, nextTest, testResult>>

\* SettingsService.addConnection
AddConnection(connection) ==
    /\ Len(backend.connections) < MaxConnections
    /\ Invoke("add_connection", 0, connection, FALSE, FALSE)
    /\ UNCHANGED <<navVars, sortVars, opsVars, staleRuns, typeVars, settings, hookSettings,
                   notifications, lastDone, isDarkMode, prefersDark, connectionStatus,
                   activeConnection, tests, nextTest, testResult>>

\* SettingsService.updateConnection
UpdateConnection(index, connection) ==
    /\ Invoke("update_connection", index, connection, FALSE, FALSE)
    /\ UNCHANGED <<navVars, sortVars, opsVars, staleRuns, typeVars, settings, hookSettings,
                   notifications, lastDone, isDarkMode, prefersDark, connectionStatus,
                   activeConnection, tests, nextTest, testResult>>

\* SettingsService.removeConnection
RemoveConnection(index) ==
    /\ Invoke("remove_connection", index, NoSettings, FALSE, FALSE)
    /\ UNCHANGED <<navVars, sortVars, opsVars, staleRuns, typeVars, settings, hookSettings,
                   notifications, lastDone, isDarkMode, prefersDark, connectionStatus,
                   activeConnection, tests, nextTest, testResult>>

\* The await of invoke returns or throws: the rest of the SettingsService method, and
\* of Header.toggleTheme when it was the caller.
InvokeSettled(c) ==
    /\ c \in invokes
    /\ invokes' = invokes \ {c}
    /\ lastDone' = [id |-> c.id, op |-> c.op, index |-> c.index, valid |-> c.valid,
                    threw |-> ~c.ok, wasDark |-> c.wasDark]
    /\ IF c.ok
       THEN NotifyListeners(c.result)
       ELSE /\ settings' = SettingsAfterRejection(settings)
            /\ isDarkMode' = IF c.op = "update_appearance_settings" THEN ~c.wasDark
                             ELSE isDarkMode
            /\ UNCHANGED <<hookSettings, notifications, connectionStatus, activeConnection,
                           tests, nextTest, testResult>>
    /\ UNCHANGED <<navVars, sortVars, opsVars, staleRuns, typeVars, backend, nextCall,
                   prefersDark>>

\* The await of S3Service.testConnection returns `isConnected` (or throws, as false).
TestConnectionReturned(t, isConnected) ==
    /\ t \in tests
    /\ tests' = tests \ {t}
    /\ connectionStatus' = IF isConnected THEN "connected" ELSE "disconnected"
    /\ testResult' = IF testResult[t.conn].id = t.id
                     THEN [testResult EXCEPT ![t.conn].result =
                              IF isConnected THEN "true" ELSE "false"]
                     ELSE testResult
    /\ UNCHANGED <<navVars, sortVars, opsVars, staleRuns, typeVars, backend, settings,
                   hookSettings, notifications, invokes, nextCall, lastDone, isDarkMode,
                   prefersDark, activeConnection, nextTest>>

----------------------------------------------------------------------------
(* Specification of the settings: the service is initialized, its settings   *)
(* were delivered to the hooks and the effects of that render have run.      *)

InitialConnections == {<<>>, <<Connection("A", TRUE)>>}

SettingsInit ==
    /\ NavInit
    /\ SortIdle
    /\ OpsIdle
    /\ staleRuns = {}
    /\ fileName = <<>>
    /\ detected = NoDetection
    /\ backend \in [theme : Themes, connections : InitialConnections]
    /\ settings = backend
    /\ hookSettings = backend
    /\ notifications = 1
    /\ invokes = {}
    /\ nextCall = 1
    /\ lastDone = NoDone
    /\ prefersDark \in BOOLEAN
    /\ isDarkMode = DarkOf(backend.theme, prefersDark)
    /\ LET eff == TestConnectionEffect(backend.connections, NoConnection, "disconnected")
           name == DefaultConnection(backend.connections)
       IN /\ connectionStatus = eff.status
          /\ activeConnection = eff.active
          /\ tests = TestsStarted(name, 1, eff.started)
          /\ nextTest = 1 + eff.started
          /\ testResult = [n \in ConnectionNames |->
                              IF n = name /\ eff.started > 0
                              THEN [id |-> eff.started, result |-> "pending"]
                              ELSE NoTest]

SettingsNext ==
    \/ \E fails \in BOOLEAN : GetSettings(fails)
    \/ \E fails \in BOOLEAN : ToggleTheme(fails)
    \/ \E connection \in Connections : AddConnection(connection)
    \/ \E index \in Indexes, connection \in Connections : UpdateConnection(index, connection)
    \/ \E index \in Indexes : RemoveConnection(index)
    \/ \E c \in invokes : InvokeSettled(c)
    \/ \E t \in tests, isConnected \in BOOLEAN : TestConnectionReturned(t, isConnected)

SpecSettings == SettingsInit /\ [][SettingsNext]_vars

----------------------------------------------------------------------------
(* Claims on the settings *)

\* C23: when a removeConnection or updateConnection call with an index that denotes
\* no connection completes, it has thrown, the cached settings are those of before
\* and no listener was notified.
C23_BadIndexRejected ==
    [][(lastDone' # lastDone
        /\ lastDone'.op \in {"remove_connection", "update_connection"}
        /\ ~lastDone'.valid)
       => /\ lastDone'.threw
          /\ settings' = settings
          /\ hookSettings' = hookSettings
          /\ notifications' = notifications]_vars

\* C23 witness: removeConnection(999) has thrown and settings are still cached.
C23_Witness ==
    /\ lastDone.op = "remove_connection"
    /\ lastDone.index = NoSuchIndex
    /\ lastDone.threw
    /\ settings # NoSettings

\* C26: once no connection test is outstanding, connectionStatus is not "connecting"
\* and it is "connected" exactly if the most recently started test of the current
\* default connection returned true.
C26_StatusReflectsLatestTest ==
    LET name == DefaultConnection(hookSettings.connections)
    IN (tests = {} /\ name # NoConnection /\ testResult[name].id # 0)
       => /\ connectionStatus # "connecting"
          /\ connectionStatus = "connected" <=> testResult[name].result = "true"

\* C27: once no SettingsService operation is outstanding, the cached settings and
\* the settings last delivered to the listeners are those the backend holds, the
\* result of the operation it processed last.
C27_CacheCoherent ==
    (invokes = {} /\ settings # NoSettings)
    => /\ settings = backend
       /\ hookSettings = backend

\* C29: when Header.toggleTheme's updateAppearanceSettings completes, isDarkMode is
\* the value of before the toggle if it failed and its negation if it succeeded.
C29_ToggleRevertsOnFailure ==
    [][(lastDone' # lastDone /\ lastDone'.op = "update_appearance_settings")
       => isDarkMode' = IF lastDone'.threw THEN lastDone'.wasDark ELSE ~lastDone'.wasDark]_vars

----------------------------------------------------------------------------
(* The download URL effect across navigation: the effect runs again when    *)
(* currentPath or objects changed, and the run of the earlier render goes on *)

\* One await of a generateDownloadUrls loop returns or throws.
UrlStep(run, ok) ==
    IF ok THEN UrlSucceeded(run, FileKey(run.path, run.files[run.pos].name))
    ELSE UrlFailed(run)

UrlRunDone(run) == run.pos > Len(run.files)

\* The generateDownloadUrls effect of the render after currentPath or objects were
\* set: a new run starts, a listing without files gets setDownloadUrl({}) at once,
\* and nothing ends the run of the earlier render.
GenerateDownloadUrls ==
    LET run == StartUrlRun(currentPath', folders', objects', error')
    IN /\ urlRun' = run
       /\ staleRuns' = staleRuns \cup (IF UrlRunDone(urlRun) THEN {} ELSE {urlRun})
       /\ downloadUrl' = IF UrlRunDone(run) THEN run.urlMap ELSE downloadUrl
       /\ UNCHANGED <<activeModal, lastCall>>

\* A folder is clicked and the render with the new path starts its effects.
FolderEntered(item) ==
    /\ activeModal = NoModal
    /\ item.type = "folder"
    /\ FileClicked(item)
    /\ GenerateDownloadUrls
    /\ UNCHANGED <<sortVars, settingsVars, typeVars>>

\* A breadcrumb is clicked and the render with the new path starts its effects.
PathEntered(path) ==
    /\ activeModal = NoModal
    /\ path # currentPath
    /\ PathClicked(path)
    /\ GenerateDownloadUrls
    /\ UNCHANGED <<sortVars, settingsVars, typeVars>>

\* The store's listing arrives and the render with the new objects starts its effects.
ListingShown(r) ==
    /\ r \in inflight
    /\ ListingReturned(r, Page(r.prefix, NoToken, "single", 0), "single", 0)
    /\ GenerateDownloadUrls
    /\ UNCHANGED <<sortVars, settingsVars, typeVars>>

\* One await of the run of an earlier render returns or throws; after its last file,
\* setDownloadUrl(urlMap).
StaleUrlGenerated(run, ok) ==
    /\ run \in staleRuns
    /\ staleRuns' = (staleRuns \ {run})
                    \cup (IF UrlRunDone(UrlStep(run, ok)) THEN {} ELSE {UrlStep(run, ok)})
    /\ downloadUrl' = IF UrlRunDone(UrlStep(run, ok)) THEN UrlStep(run, ok).urlMap
                      ELSE downloadUrl
    /\ lastCall' = [op |-> "presign", file |-> run.files[run.pos], path |-> run.path,
                    key |-> FileKey(run.path, run.files[run.pos].name)]
    /\ UNCHANGED <<navVars, sortVars, settingsVars, typeVars, activeModal, urlRun>>

----------------------------------------------------------------------------
(* Specification of the download URL cache: an explorer that shows the       *)
(* store's root listing, its URL effect starting, is navigated.              *)

CacheInit ==
    /\ activePage = "files"
    /\ selectedBucket \in Buckets
    /\ currentPath = Root
    /\ appSelectedFile = NoSelection
    /\ selectedFile = NoSelection
    /\ objects = Page(<<>>, NoToken, "single", 0).objects
    /\ folders = Page(<<>>, NoToken, "single", 0).common_prefixes
    /\ loading = FALSE
    /\ error = NoError
    /\ inflight = {}
    /\ nextId = 2
    /\ pageCalls = [i \in Ids |-> IF i = 1 THEN 1 ELSE 0]
    /\ latest = 1
    /\ outcome = [st |-> "ok", prefix |-> <<>>, kind |-> "single", cut |-> 0]
    /\ applied = [id |-> 1, prefix |-> <<>>, kind |-> "single", cut |-> 0]
    /\ cancelled = {}
    /\ SortIdle
    /\ downloadUrl = NoUrls
    /\ activeModal = NoModal
    /\ urlRun = StartUrlRun(currentPath, folders, objects, error)
    /\ lastCall = NoCall
    /\ SideIdle

CacheNext ==
    \/ \E i \in 1..Len(FileItems) : FolderEntered(FileItems[i])
    \/ \E i \in 1..Len(Breadcrumbs(currentPath)) : PathEntered(Breadcrumbs(currentPath)[i])
    \/ \E r \in inflight : ListingShown(r)
    \/ GenerateDownloadUrl(TRUE)
    \/ \E run \in staleRuns : StaleUrlGenerated(run, TRUE)
    \/ \E i \in 1..Len(FileItems) : HandleDownload(FileItems[i], TRUE)

SpecCache == CacheInit /\ [][CacheNext]_vars

----------------------------------------------------------------------------
(* Claims on the download URL cache *)

\* C24: a URL cached under the id of a file that is displayed was generated for the
\* storage key of that file, also when the listing displayed is the one of the
\* current path, and a download never uses a URL of another key.
C24_CachedUrlOfDisplayedFile ==
    /\ applied.prefix = ListedPrefix(currentPath)
       => \A i \in 1..Len(FileItems) :
             (FileItems[i].type = "file" /\ HasUrl(downloadUrl, FileItems[i].id))
             => UrlOf(downloadUrl, FileItems[i].id) = FileKey(currentPath, FileItems[i].name)
    /\ lastCall.op = "download" => lastCall.key = FileKey(lastCall.path, lastCall.file.name)

====
